---- MODULE Spec2Model ----
(***************************************************************************)
(* State-machine model of the CalDAV sync plugin in src/main.ts: the       *)
(* sync-event command, the sync-all-events command (full pass), the        *)
(* single-event sync routine and the import loop.                          *)
(*                                                                         *)
(* Scheduling: JavaScript is single threaded and cooperative, so every     *)
(* action below is one run-to-completion slice of code between two         *)
(* suspension points (an await on storage or on an HTTP request).          *)
(***************************************************************************)
EXTENDS Integers, Sequences, FiniteSets, TLC

(***************************************************************************)
(* Bounds of the model.                                                    *)
(***************************************************************************)
MaxPasses == 1      \* invocations of the sync-all-events command
MaxSingle == 1      \* invocations of the sync-event command
MaxFresh  == 2      \* uuidv4() values drawn
MaxOverlap == 2     \* invocations of sync-all-events in the two-pass specification

(***************************************************************************)
(* Values.  Times are minutes; an instant is minutes since day 0, UTC.     *)
(***************************************************************************)
Undef      == 0     \* JavaScript undefined / empty guid, url, location
UndefText  == -1    \* the text "undefined", what JSON.stringify(undefined) leaves in a `key: value` line
NoTime     == -1    \* start_time / end_time / end absent
DayLen     == 1440
HourLen    == 60
TzOffsets  == {0}   \* local time = UTC + offset (minutes)

Marker     == "calendar-event"
eventsDirectory == <<"ev">>

Passes  == 1..MaxPasses
Slots   == 1..(IF MaxPasses > MaxOverlap THEN MaxPasses ELSE MaxOverlap)
Owners  == {0} \cup Slots          \* 0: the sync-event command
RemoteUids == {1, 2}              \* uids of the events the server holds at the start
FreshUid(n) == Cardinality(RemoteUids) + n   \* the n-th value of uuidv4()
AllUids == RemoteUids \cup {FreshUid(n) : n \in 1..MaxFresh}
UrlOf(uid) == 100 + uid            \* the URL property the server gives the event uid

(***************************************************************************)
(* File names.  A name is a sequence of characters, a path a sequence of   *)
(* names (folders, then the basename).                                     *)
(***************************************************************************)
Hostile == {"/", "\\", ":"}

\* value.summary.replace(/[\/\\:]/g, '_')
Sanitize(s) == [i \in 1..Len(s) |-> IF s[i] \in Hostile THEN "_" ELSE s[i]]

\* file.path.startsWith(`${eventsDirectory}/`)
InRoot(path) ==
    /\ Len(path) > Len(eventsDirectory)
    /\ SubSeq(path, 1, Len(eventsDirectory)) = eventsDirectory

Basename(path) == path[Len(path)]

\* `${folderPath}/${fileName}.md`
FullPath(folderPath, fileName) == Append(folderPath, fileName)

NameA == <<"A">>
NameB == <<"B">>
NameH == <<"B", ":">>

PathSubA   == <<"ev", "sub", NameA>>
PathB      == <<"ev", NameB>>
PathOtherA == <<"other", NameA>>

Summaries == {NameA, NameB, NameH}
AllPaths  == {PathSubA, PathB, PathOtherA}
                 \cup {FullPath(eventsDirectory, Sanitize(s)) : s \in Summaries}

(***************************************************************************)
(* Local records (markdown files with frontmatter).                        *)
(***************************************************************************)
NoFile == [exists |-> FALSE, type |-> "", date |-> Undef, start_time |-> NoTime,
           end_time |-> NoTime, location |-> Undef, url |-> Undef, guid |-> Undef,
           rest |-> <<>>]

File(type, date, st, et, guid) ==
    [exists |-> TRUE, type |-> type, date |-> date, start_time |-> st,
     end_time |-> et, location |-> 1, url |-> Undef, guid |-> guid,
     rest |-> <<"\n", "x">>]

\* The text after the frontmatter block, minus its first character:
\* content.slice(frontmatterPosition.end.offset + 1)
Description(rest) == IF rest = <<>> THEN <<>> ELSE Tail(rest)

\* tryCreateObsidianEvent: the event of a record, or Undef when it is not eligible
NoEvent == [ok |-> FALSE]

\* Variant: the date is not required
tryCreateObsidianEventAnyDate(filename, file) ==
    IF file.exists /\ file.type = Marker
    THEN [ok |-> TRUE, date |-> file.date, start_time |-> file.start_time,
          end_time |-> file.end_time, summary |-> filename,
          description |-> Description(file.rest), location |-> file.location,
          url |-> file.url, guid |-> file.guid]
    ELSE NoEvent

tryCreateObsidianEvent(filename, file) ==
    IF file.exists /\ file.type = Marker /\ file.date # Undef
    THEN [ok |-> TRUE, date |-> file.date, start_time |-> file.start_time,
          end_time |-> file.end_time, summary |-> filename,
          description |-> Description(file.rest), location |-> file.location,
          url |-> file.url, guid |-> file.guid]
    ELSE NoEvent


(***************************************************************************)
(* State.                                                                  *)
(***************************************************************************)
VARIABLES
    vault,      \* path -> local record (NoFile when there is none), as the metadata cache shows it
    server,     \* uid -> the event the CalDAV collection holds (NoRemote when none)
    tasks,      \* <<owner, path>> -> one invocation of syncEventFile
    pass,       \* pass id -> one invocation of the sync-all-events callback
    pending,    \* processFrontMatter edits called but not yet applied
    nextFresh,  \* number of uuidv4() values drawn so far
    singles,    \* number of invocations of the sync-event command
    noActive,   \* number of 'no active file' notices shown
    puts,       \* path -> uids of the PUTs issued for the record (history)
    born,       \* path -> guid the record had when it first existed, -1 before (history)
    tz          \* offset of local time from UTC, minutes

vars == <<vault, server, tasks, pass, pending, nextFresh, singles, noActive, puts, born, tz>>

LocalDay(t) == (t + tz) \div DayLen
LocalMin(t) == (t + tz) % DayLen

(***************************************************************************)
(* Calendar events.                                                        *)
(***************************************************************************)
NoRemote == [present |-> FALSE]

Remote(uid, summary, startType, start, end, url) ==
    [present |-> TRUE, uid |-> uid, summary |-> summary, description |-> <<"d">>,
     location |-> Undef, startType |-> startType, start |-> start,
     endType |-> startType, end |-> end, url |-> url]

\* Variant: a uid is drawn whether or not the record has a guid
UuidForAlwaysFresh(local_event, fresh) == fresh

\* const uuid = local_event.guid || `${uuidv4()}@obsidian.md`
UuidFor(local_event, fresh) ==
    IF local_event.guid # Undef THEN local_event.guid ELSE fresh

\* Variant: end_time is used whenever it is given, start_time or not
BuildIcsEndTimeAlways(local_event, uuid) ==
    LET timed  == local_event.start_time # NoTime
        hasEnd == local_event.end_time # NoTime
        start  == IF timed
                  THEN local_event.date * DayLen + local_event.start_time - tz
                  ELSE local_event.date * DayLen
        end    == IF hasEnd
                  THEN local_event.date * DayLen + local_event.end_time - tz
                  ELSE IF timed THEN start + HourLen ELSE start + DayLen
    IN [present |-> TRUE, uid |-> uuid, summary |-> local_event.summary,
        description |-> local_event.description, location |-> local_event.location,
        startType |-> IF timed THEN "DATE-TIME" ELSE "DATE", start |-> start,
        endType |-> IF timed \/ hasEnd THEN "DATE-TIME" ELSE "DATE", end |-> end,
        url |-> Undef]

\* The IcsEvent that syncEvent builds from a local event
BuildIcs(local_event, uuid) ==
    LET timed == local_event.start_time # NoTime
        start == IF timed
                 THEN local_event.date * DayLen + local_event.start_time - tz
                 ELSE local_event.date * DayLen
        end   == IF timed
                 THEN IF local_event.end_time # NoTime
                      THEN local_event.date * DayLen + local_event.end_time - tz
                      ELSE start + HourLen
                 ELSE start + DayLen
    IN [present |-> TRUE, uid |-> uuid, summary |-> local_event.summary,
        description |-> local_event.description, location |-> local_event.location,
        startType |-> IF timed THEN "DATE-TIME" ELSE "DATE", start |-> start,
        endType |-> IF timed THEN "DATE-TIME" ELSE "DATE", end |-> end,
        url |-> Undef]

\* `${key}: ${JSON.stringify(value)}` read back through the frontmatter parser
Ser(v) == IF v = Undef THEN UndefText ELSE v

\* Variant: the end is taken without comparing its day with the start's
ImportPropsNoDayCheck(value) ==
    LET props == [exists |-> TRUE, type |-> Marker, date |-> LocalDay(value.start),
                  start_time |-> NoTime, end_time |-> NoTime,
                  location |-> Ser(value.location), url |-> Ser(value.url),
                  guid |-> value.uid,
                  rest |-> <<"\n", "\n">> \o value.description]
    IN IF value.startType = "DATE-TIME"
       THEN [skip |-> FALSE,
             props |-> [props EXCEPT !.start_time = LocalMin(value.start),
                                     !.end_time = IF value.end # NoTime
                                                  THEN LocalMin(value.end) ELSE NoTime]]
       ELSE [skip |-> FALSE, props |-> props]

\* Variant: the uid of the remote event is not written as the guid
ImportPropsNoGuid(value) ==
    LET startDay == LocalDay(value.start)
        hasEnd   == value.end # NoTime
        sameDay  == hasEnd /\ LocalDay(value.end) = startDay
        props    == [exists |-> TRUE, type |-> Marker, date |-> startDay,
                     start_time |-> NoTime, end_time |-> NoTime,
                     location |-> Ser(value.location), url |-> Ser(value.url),
                     guid |-> Undef,
                     rest |-> <<"\n", "\n">> \o value.description]
    IN IF value.startType = "DATE-TIME"
       THEN IF sameDay
            THEN [skip |-> FALSE,
                  props |-> [props EXCEPT !.start_time = LocalMin(value.start),
                                          !.end_time = LocalMin(value.end)]]
            ELSE IF hasEnd
            THEN [skip |-> TRUE, props |-> props]
            ELSE [skip |-> FALSE,
                  props |-> [props EXCEPT !.start_time = LocalMin(value.start)]]
       ELSE [skip |-> FALSE, props |-> props]

\* The frontmatter of the record the import loop makes of a remote event, and
\* whether the loop skips the event as a multi-day timed event
ImportProps(value) ==
    LET startDay == LocalDay(value.start)
        hasEnd   == value.end # NoTime
        sameDay  == hasEnd /\ LocalDay(value.end) = startDay
        props    == [exists |-> TRUE, type |-> Marker, date |-> startDay,
                     start_time |-> NoTime, end_time |-> NoTime,
                     location |-> Ser(value.location), url |-> Ser(value.url),
                     guid |-> value.uid,
                     rest |-> <<"\n", "\n">> \o value.description]
    IN IF value.startType = "DATE-TIME"
       THEN IF sameDay
            THEN [skip |-> FALSE,
                  props |-> [props EXCEPT !.start_time = LocalMin(value.start),
                                          !.end_time = LocalMin(value.end)]]
            ELSE IF hasEnd
            THEN [skip |-> TRUE, props |-> props]
            ELSE [skip |-> FALSE,
                  props |-> [props EXCEPT !.start_time = LocalMin(value.start)]]
       ELSE [skip |-> FALSE, props |-> props]

RECURSIVE RunLoopIgnoringKnown(_, _, _, _)
\* The import loop without the test !my_set.has(value.uid)
RunLoopIgnoringKnown(cal, my_set, i, warns) ==
    IF i > Len(cal)
    THEN [pc |-> "done", idx |-> i, warns |-> warns, notice |-> TRUE]
    ELSE IF ImportProps(cal[i]).skip
    THEN RunLoopIgnoringKnown(cal, my_set, i + 1, warns + 1)
    ELSE [pc |-> "create", idx |-> i, warns |-> warns, notice |-> FALSE]

RECURSIVE RunLoop(_, _, _, _)
\* The for loop of the import phase from event i on, up to its next call of
\* createFileWithProps (an await) or its end (the final notice)
RunLoop(cal, my_set, i, warns) ==
    IF i > Len(cal)
    THEN [pc |-> "done", idx |-> i, warns |-> warns, notice |-> TRUE]
    ELSE IF cal[i].uid \in my_set
    THEN RunLoop(cal, my_set, i + 1, warns)
    ELSE IF ImportProps(cal[i]).skip
    THEN RunLoop(cal, my_set, i + 1, warns + 1)
    ELSE [pc |-> "create", idx |-> i, warns |-> warns, notice |-> FALSE]

(***************************************************************************)
(* Tasks and passes.                                                       *)
(***************************************************************************)
IdleTask == [pc |-> "idle", guid0 |-> Undef, url0 |-> Undef, uid |-> Undef,
             evGuid |-> Undef, evUrl |-> Undef, putSt |-> "none", chkSt |-> "none",
             result |-> "none", wrote |-> FALSE, readOk |-> FALSE, eligible |-> FALSE,
             ics |-> NoRemote, nPut |-> 0, nChk |-> 0, chkUid |-> Undef]

IdlePass == [pc |-> "idle", files |-> {}, my_set |-> {}, cal |-> <<>>, idx |-> 0,
             warns |-> 0, notice |-> FALSE, err |-> "none", created |-> {},
             fetchSt |-> "none", nFetch |-> 0, prev |-> {}]

Settled(t) == t.pc \in {"done", "failed"}

\* Variant: the frontmatter's guid is not looked at
getUUIDFromEventFileBlind(doc) == Undef

\* frontmatter && frontmatter.guid ? frontmatter.guid : ''
getUUIDFromEventFile(doc) == IF vault[doc].exists THEN vault[doc].guid ELSE Undef


(***************************************************************************)
(* Initial states: a few local records and a few remote events.            *)
(***************************************************************************)
InitSubA   == {File(Marker, 2, NoTime, NoTime, Undef), File(Marker, 2, 600, NoTime, 1)}
InitB      == {NoFile, File(Marker, 2, NoTime, NoTime, Undef), File("note", 2, NoTime, NoTime, Undef),
               File(Marker, Undef, NoTime, NoTime, Undef)}
InitOtherA == {File(Marker, 2, 600, 660, Undef)}
InitUid1   == {Remote(1, NameA, "DATE-TIME", 2 * DayLen + 600, 2 * DayLen + 660, UrlOf(1))}
InitUid2   == {Remote(2, NameB, "DATE-TIME", 2 * DayLen + 1380, 3 * DayLen + 60, UrlOf(2)),
               Remote(2, NameH, "DATE", 3 * DayLen, 4 * DayLen, Undef)}

Init ==
    /\ \E a \in InitSubA, b \in InitB, c \in InitOtherA :
          vault = [f \in AllPaths |-> IF f = PathSubA THEN a
                                      ELSE IF f = PathB THEN b
                                      ELSE IF f = PathOtherA THEN c
                                      ELSE NoFile]
    /\ \E r1 \in InitUid1, r2 \in InitUid2 :
          server = [u \in AllUids |-> IF u = 1 THEN r1 ELSE IF u = 2 THEN r2 ELSE NoRemote]
    /\ tasks = [k \in Owners \X AllPaths |-> IdleTask]
    /\ pass = [p \in Slots |-> IdlePass]
    /\ pending = {}
    /\ nextFresh = 0
    /\ singles = 0
    /\ noActive = 0
    /\ puts = [f \in AllPaths |-> {}]
    /\ born = [f \in AllPaths |-> IF vault[f].exists THEN vault[f].guid ELSE -1]
    /\ tz \in TzOffsets

(***************************************************************************)
(* The sync-event command (lines 60-71).                                   *)
(***************************************************************************)
SyncEventCmd ==
    /\ singles < MaxSingle
    /\ singles' = singles + 1
    /\ \/ \E f \in AllPaths :
            /\ vault[f].exists
            /\ tasks[<<0, f>>].pc \in {"idle", "done", "failed"}
            /\ tasks' = [tasks EXCEPT ![<<0, f>>] = [IdleTask EXCEPT !.pc = "read"]]
            /\ UNCHANGED noActive
       \/ /\ noActive' = noActive + 1
          /\ UNCHANGED tasks
    /\ UNCHANGED <<vault, server, pass, pending, nextFresh, puts, born, tz>>

(***************************************************************************)
(* The sync-all-events command up to its first suspension (lines 76-86):   *)
(* the files are listed, each record's guid is read, and every record's    *)
(* syncEventFile has called vault.read.                                    *)
(***************************************************************************)
StartPass(p) ==
    /\ pass[p].pc = "idle"
    /\ \A q \in Slots : q < p => pass[q].pc # "idle"
    /\ LET md_files == {f \in AllPaths : vault[f].exists /\ InRoot(f)}
           my_set   == {getUUIDFromEventFile(f) : f \in md_files} \ {Undef}
           none     == md_files = {}
       IN /\ tasks' = [k \in Owners \X AllPaths |->
                          IF k[1] = p /\ k[2] \in md_files
                          THEN [IdleTask EXCEPT !.pc = "read"] ELSE tasks[k]]
          /\ pass' = [pass EXCEPT ![p] =
                          [IdlePass EXCEPT !.pc = IF none THEN "fetch" ELSE "push",
                                           !.nFetch = IF none THEN 1 ELSE 0,
                                           !.files = md_files, !.my_set = my_set,
                                           !.prev = {q \in Slots : pass[q].pc \in {"done", "threw"}}]]
    /\ UNCHANGED <<vault, server, pending, nextFresh, singles, noActive, puts, born, tz>>

\* Variant: the callback goes on as soon as one syncEventFile has completed
AfterTaskFirstDone(o, tk, threw) ==
    IF o \notin Slots \/ pass[o].pc # "push" THEN pass
    ELSE IF threw THEN [pass EXCEPT ![o].pc = "threw", ![o].err = "task"]
    ELSE IF \E f \in pass[o].files : tk[<<o, f>>].pc = "done"
    THEN [pass EXCEPT ![o].pc = "fetch", ![o].nFetch = @ + 1]
    ELSE pass

\* What the completion of a syncEventFile does to the pass that awaits it
\* (Promise.all: rejects with the first rejection, resolves when all have resolved;
\* the callback then calls fetchCalendar, which issues the collection PROPFIND)
AfterTask(o, tk, threw) ==
    IF o \notin Slots \/ pass[o].pc # "push" THEN pass
    ELSE IF threw THEN [pass EXCEPT ![o].pc = "threw", ![o].err = "task"]
    ELSE IF \A f \in pass[o].files : tk[<<o, f>>].pc = "done"
    THEN [pass EXCEPT ![o].pc = "fetch", ![o].nFetch = @ + 1]
    ELSE pass

(***************************************************************************)
(* syncEventFile: vault.read returns or throws; on return the event is     *)
(* built and syncEvent issues the PUT (lines 145-149, 162-206).            *)
(***************************************************************************)
\* syncEventFile after vault.read has returned, up to the PUT of syncEvent
OnRead(t, filename, file, fresh) ==
    LET event == tryCreateObsidianEvent(filename, file)
        uuid  == UuidFor(event, fresh)
    IN IF ~event.ok THEN [t EXCEPT !.pc = "done", !.readOk = TRUE]
       ELSE [t EXCEPT !.pc = "put", !.readOk = TRUE, !.eligible = TRUE,
                      !.guid0 = event.guid, !.url0 = event.url,
                      !.evGuid = event.guid, !.evUrl = event.url,
                      !.uid = uuid, !.ics = BuildIcs(event, uuid), !.nPut = @ + 1]

ReadDone(o, f, ok) ==
    LET t      == tasks[<<o, f>>]
        t1     == IF ok THEN OnRead(t, Basename(f), vault[f], FreshUid(nextFresh + 1))
                  ELSE [t EXCEPT !.pc = "failed"]
        issued == t1.pc = "put"
        draws  == issued /\ t1.guid0 = Undef
    IN /\ t.pc = "read"
       /\ draws => nextFresh < MaxFresh
       /\ tasks' = [tasks EXCEPT ![<<o, f>>] = t1]
       /\ nextFresh' = IF draws THEN nextFresh + 1 ELSE nextFresh
       /\ puts' = IF issued THEN [puts EXCEPT ![f] = @ \cup {t1.uid}] ELSE puts
       /\ pass' = AfterTask(o, tasks', t1.pc = "failed")
       /\ UNCHANGED <<vault, server, pending, singles, noActive, born, tz>>

(***************************************************************************)
(* syncEvent: the PUT returns st (lines 198-208, 222-226).                 *)
(***************************************************************************)
Statuses == {"2xx", "non2xx", "throw"}

\* Variant: a PUT that did not succeed is sent once more
OnPutRetry(t, st) ==
    IF st = "2xx" THEN [t EXCEPT !.pc = "verify", !.putSt = st, !.nChk = @ + 1,
                                 !.chkUid = t.ics.uid]
    ELSE IF t.nPut < 2 THEN [t EXCEPT !.putSt = st, !.nPut = @ + 1]
    ELSE [t EXCEPT !.pc = "done", !.putSt = st, !.result = "false"]

\* Variant: no catch, a transport exception leaves syncEvent
OnPutNoCatch(t, st) ==
    IF st = "2xx" THEN [t EXCEPT !.pc = "verify", !.putSt = st, !.nChk = @ + 1,
                                 !.chkUid = t.ics.uid]
    ELSE IF st = "throw" THEN [t EXCEPT !.pc = "failed", !.putSt = st]
    ELSE [t EXCEPT !.pc = "done", !.putSt = st, !.result = "false"]

\* syncEvent on the answer to the PUT: a 2xx status goes on to the verify
\* PROPFIND, anything else (the catch included) returns false
OnPut(t, st) ==
    IF st = "2xx" THEN [t EXCEPT !.pc = "verify", !.putSt = st, !.nChk = @ + 1,
                                 !.chkUid = t.ics.uid]
    ELSE [t EXCEPT !.pc = "done", !.putSt = st, !.result = "false"]

\* Variant: guid and url are assigned before the status is looked at
OnVerifyAssignsFirst(t, st, url) ==
    IF st = "2xx"
    THEN [t EXCEPT !.pc = "done", !.chkSt = st, !.evGuid = t.uid, !.evUrl = url,
                   !.result = "true"]
    ELSE [t EXCEPT !.pc = "done", !.chkSt = st, !.evGuid = t.uid, !.evUrl = url,
                   !.result = "false"]

\* Variant: the url of the answer is dropped
OnVerifyKeepsUrl(t, st, url) ==
    IF st = "2xx"
    THEN [t EXCEPT !.pc = "done", !.chkSt = st, !.evGuid = t.uid, !.result = "true"]
    ELSE [t EXCEPT !.pc = "done", !.chkSt = st, !.result = "false"]

\* syncEvent on the answer to the verify PROPFIND, url being the URL of the
\* first VEVENT of the answer (lines 215-226)
OnVerify(t, st, url) ==
    IF st = "2xx"
    THEN [t EXCEPT !.pc = "done", !.chkSt = st, !.evGuid = t.uid, !.evUrl = url,
                   !.result = "true"]
    ELSE [t EXCEPT !.pc = "done", !.chkSt = st, !.result = "false"]

\* The edits syncEventFile hands to processFrontMatter once syncEvent has
\* returned (lines 149-154); the call is not awaited
FrontMatterEdits(f, t) ==
    IF t.pc = "done" /\ t.result = "true"
    THEN {[path |-> f, guid |-> t.evGuid, url |-> t.evUrl]}
    ELSE {}

PutResp(o, f, st) ==
    LET t  == tasks[<<o, f>>]
        t1 == OnPut(t, st)
        ed == FrontMatterEdits(f, t1)
    IN /\ t.pc = "put"
       /\ tasks' = [tasks EXCEPT ![<<o, f>>] = [t1 EXCEPT !.wrote = (ed # {})]]
       /\ server' = IF st = "2xx" THEN [server EXCEPT ![t.uid] = [t.ics EXCEPT !.url = UrlOf(t.uid)]]
                    ELSE server
       /\ pending' = pending \cup ed
       /\ pass' = AfterTask(o, tasks', t1.pc = "failed")
       /\ UNCHANGED <<vault, nextFresh, singles, noActive, puts, born, tz>>

(***************************************************************************)
(* syncEvent: the verify PROPFIND returns st; syncEventFile then calls     *)
(* processFrontMatter without awaiting it (lines 209-226, 149-154).        *)
(***************************************************************************)
VerifyResp(o, f, st) ==
    LET t  == tasks[<<o, f>>]
        t1 == OnVerify(t, st, server[t.chkUid].url)
        ed == FrontMatterEdits(f, t1)
    IN /\ t.pc = "verify"
       /\ tasks' = [tasks EXCEPT ![<<o, f>>] = [t1 EXCEPT !.wrote = (ed # {})]]
       /\ pending' = pending \cup ed
       /\ pass' = AfterTask(o, tasks', t1.pc = "failed")
       /\ UNCHANGED <<vault, server, nextFresh, singles, noActive, puts, born, tz>>

(***************************************************************************)
(* processFrontMatter applies a pending edit (lines 150-153).              *)
(***************************************************************************)
ApplyFrontMatter(w) ==
    /\ w \in pending
    /\ pending' = pending \ {w}
    /\ vault' = [vault EXCEPT ![w.path].guid = w.guid, ![w.path].url = w.url]
    /\ UNCHANGED <<server, tasks, pass, nextFresh, singles, noActive, puts, born, tz>>


(***************************************************************************)
(* fetchCalendar: the collection PROPFIND returns st (lines 235-250); on a *)
(* 2xx answer the events come in the order `order` and the import loop     *)
(* runs up to its first createFileWithProps (lines 89-116).                *)
(***************************************************************************)
Present == {u \in AllUids : server[u].present}

\* The orders in which the server lists the events S: by uid, ascending or descending
Ascending(S)  == [i \in 1..Cardinality(S) |->
                     CHOOSE u \in S : Cardinality({v \in S : v < u}) = i - 1]
Descending(S) == [i \in 1..Cardinality(S) |->
                     CHOOSE u \in S : Cardinality({v \in S : v > u}) = i - 1]
Orders(S) == {Ascending(S), Descending(S)}

\* What the callback does with the result of fetchCalendar; noEvents: the parsed
\* calendar of an empty collection has no events member
OnFetched(p, st, cal, noEvents) ==
    IF st = "throw" THEN [pass[p] EXCEPT !.pc = "threw", !.err = "fetch", !.fetchSt = st]
    ELSE IF st = "non2xx" \/ (cal = <<>> /\ noEvents)
    THEN [pass[p] EXCEPT !.pc = "done", !.fetchSt = st]
    ELSE LET r == RunLoop(cal, pass[p].my_set, 1, 0)
         IN [pass[p] EXCEPT !.pc = r.pc, !.cal = cal, !.idx = r.idx,
                            !.warns = r.warns, !.notice = r.notice, !.fetchSt = st]

FetchResp(p) ==
    /\ pass[p].pc = "fetch"
    /\ \E st \in Statuses, order \in Orders(Present), noEvents \in BOOLEAN :
          pass' = [pass EXCEPT ![p] =
                      OnFetched(p, st, [i \in DOMAIN order |-> server[order[i]]], noEvents)]
    /\ UNCHANGED <<vault, server, tasks, pending, nextFresh, singles, noActive, puts, born, tz>>

\* Variant: the file is written whether or not the path is taken
CreateDoneOverwrites(p) ==
    LET ps    == pass[p]
        value == ps.cal[ps.idx]
        path  == FullPath(eventsDirectory, Sanitize(value.summary))
        r     == RunLoop(ps.cal, ps.my_set, ps.idx + 1, ps.warns)
    IN /\ ps.pc = "create"
       /\ vault' = [vault EXCEPT ![path] = ImportProps(value).props]
       /\ born' = [born EXCEPT ![path] = value.uid]
       /\ pass' = [pass EXCEPT ![p].pc = r.pc, ![p].idx = r.idx, ![p].warns = r.warns,
                               ![p].notice = r.notice,
                               ![p].created = @ \cup {value.uid}]
       /\ UNCHANGED <<server, tasks, pending, nextFresh, singles, noActive, puts, tz>>

(***************************************************************************)
(* createFileWithProps: vault.create returns or throws because the path is *)
(* taken (lines 110-111, 120-136); on return the loop goes on to its next  *)
(* createFileWithProps or to its end.                                      *)
(***************************************************************************)
CreateDone(p) ==
    LET ps    == pass[p]
        value == ps.cal[ps.idx]
        path  == FullPath(eventsDirectory, Sanitize(value.summary))
        r     == RunLoop(ps.cal, ps.my_set, ps.idx + 1, ps.warns)
    IN /\ ps.pc = "create"
       /\ IF vault[path].exists
          THEN /\ pass' = [pass EXCEPT ![p].pc = "threw", ![p].err = "create"]
               /\ UNCHANGED <<vault, born>>
          ELSE /\ vault' = [vault EXCEPT ![path] = ImportProps(value).props]
               /\ born' = [born EXCEPT ![path] = value.uid]
               /\ pass' = [pass EXCEPT ![p].pc = r.pc, ![p].idx = r.idx, ![p].warns = r.warns,
                                       ![p].notice = r.notice,
                                       ![p].created = @ \cup {value.uid}]
       /\ UNCHANGED <<server, tasks, pending, nextFresh, singles, noActive, puts, tz>>

(***************************************************************************)
(* The mapping of a local record to a Calendar Event on its own: one       *)
(* record, drawn from the dates, times and time zones below, synced by the *)
(* sync-event command (lines 60-71, 144-227).                              *)
(***************************************************************************)
MapDates  == {1, 2}
MapStarts == {NoTime, 0, 600, 1380}
MapEnds   == {NoTime, 660, 1439}
MapGuids  == {Undef, 1}
MapTz     == {-300, 0, 120}

InitMap ==
    /\ \E d \in MapDates, st \in MapStarts, et \in MapEnds, g \in MapGuids :
          vault = [f \in AllPaths |-> IF f = PathOtherA THEN File(Marker, d, st, et, g)
                                      ELSE NoFile]
    /\ server = [u \in AllUids |-> NoRemote]
    /\ tasks = [k \in Owners \X AllPaths |-> IdleTask]
    /\ pass = [p \in Slots |-> IdlePass]
    /\ pending = {}
    /\ nextFresh = 0
    /\ singles = 0
    /\ noActive = 0
    /\ puts = [f \in AllPaths |-> {}]
    /\ born = [f \in AllPaths |-> IF vault[f].exists THEN vault[f].guid ELSE -1]
    /\ tz \in MapTz

NextMap ==
    \/ SyncEventCmd
    \/ \E f \in AllPaths, ok \in BOOLEAN : ReadDone(0, f, ok)
    \/ \E f \in AllPaths, st \in Statuses : PutResp(0, f, st)
    \/ \E f \in AllPaths, st \in Statuses : VerifyResp(0, f, st)
    \/ \E w \in pending : ApplyFrontMatter(w)

SpecMap == InitMap /\ [][NextMap]_vars

(***************************************************************************)
(* Two invocations of sync-all-events, the second one started at any time  *)
(* after the first: while it runs or after it has ended (lines 76-116).    *)
(***************************************************************************)
Overlap == 1..MaxOverlap

InitTwo ==
    /\ \E a \in InitSubA, c \in InitOtherA :
          vault = [f \in AllPaths |-> IF f = PathSubA THEN a
                                      ELSE IF f = PathOtherA THEN c
                                      ELSE NoFile]
    /\ \E r1 \in InitUid1, r2 \in InitUid2 :
          server = [u \in AllUids |-> IF u = 1 THEN r1 ELSE IF u = 2 THEN r2 ELSE NoRemote]
    /\ tasks = [k \in Owners \X AllPaths |-> IdleTask]
    /\ pass = [p \in Slots |-> IdlePass]
    /\ pending = {}
    /\ nextFresh = 0
    /\ singles = 0
    /\ noActive = 0
    /\ puts = [f \in AllPaths |-> {}]
    /\ born = [f \in AllPaths |-> IF vault[f].exists THEN vault[f].guid ELSE -1]
    /\ tz \in TzOffsets

NextTwo ==
    \/ \E p \in Overlap : StartPass(p)
    \/ \E o \in Overlap, f \in AllPaths, ok \in BOOLEAN : ReadDone(o, f, ok)
    \/ \E o \in Overlap, f \in AllPaths, st \in Statuses : PutResp(o, f, st)
    \/ \E o \in Overlap, f \in AllPaths, st \in Statuses : VerifyResp(o, f, st)
    \/ \E w \in pending : ApplyFrontMatter(w)
    \/ \E p \in Overlap : FetchResp(p)
    \/ \E p \in Overlap : CreateDone(p)

SpecTwo == InitTwo /\ [][NextTwo]_vars

(***************************************************************************)
(* Specification.                                                          *)
(***************************************************************************)
Next ==
    \/ SyncEventCmd
    \/ \E p \in Passes : StartPass(p)
    \/ \E o \in Owners, f \in AllPaths, ok \in BOOLEAN : ReadDone(o, f, ok)
    \/ \E o \in Owners, f \in AllPaths, st \in Statuses : PutResp(o, f, st)
    \/ \E o \in Owners, f \in AllPaths, st \in Statuses : VerifyResp(o, f, st)
    \/ \E w \in pending : ApplyFrontMatter(w)
    \/ \E p \in Passes : FetchResp(p)
    \/ \E p \in Passes : CreateDone(p)

Spec == Init /\ [][Next]_vars

\* Every storage call and every HTTP request returns, with success or failure
Fairness ==
    /\ WF_vars(\E o \in Owners, f \in AllPaths, ok \in BOOLEAN : ReadDone(o, f, ok))
    /\ WF_vars(\E o \in Owners, f \in AllPaths, st \in Statuses : PutResp(o, f, st))
    /\ WF_vars(\E o \in Owners, f \in AllPaths, st \in Statuses : VerifyResp(o, f, st))
    /\ WF_vars(\E w \in pending : ApplyFrontMatter(w))
    /\ WF_vars(\E p \in Passes : FetchResp(p))
    /\ WF_vars(\E p \in Passes : CreateDone(p))

SpecFair == Init /\ [][Next]_vars /\ Fairness

TypeOK ==
    /\ \A f \in AllPaths : vault[f].guid \in {Undef} \cup AllUids
    /\ nextFresh \in 0..MaxFresh
    /\ \A p \in Slots : pass[p].pc \in {"idle", "push", "fetch", "create", "done", "threw"}


(***************************************************************************)
(* Properties.                                                             *)
(***************************************************************************)
Existing == {f \in AllPaths : vault[f].exists}
TaskIds  == Owners \X AllPaths
Failing  == {"non2xx", "throw"}

\* C1: at most one local record carries any given non-empty guid (a full pass
\* creates a record for a remote event only if no local record has its uid).
C1_OneRecordPerGuid ==
    \A f, g \in Existing :
        (f # g /\ vault[f].guid # Undef) => vault[f].guid # vault[g].guid

\* C2: syncEvent returns true only after a 2xx PUT and a 2xx verify; after any
\* failing PUT or verify it has returned false, the event's guid and url are the
\* values it was called with, and no frontmatter edit was made.
C2_FailureLeavesRecord ==
    \A k \in TaskIds :
        LET t == tasks[k]
        IN /\ t.result = "true" => (t.putSt = "2xx" /\ t.chkSt = "2xx")
           /\ (t.putSt \in Failing \/ t.chkSt \in Failing) =>
                 /\ t.pc = "done" /\ t.result = "false"
                 /\ t.evGuid = t.guid0 /\ t.evUrl = t.url0
                 /\ ~t.wrote
                 /\ t.guid0 = Undef =>
                       /\ \A w \in pending : w.path = k[2] => w.guid # t.uid
                       /\ vault[k[2]].guid # t.uid

C2_Witness ==
    \E k \in TaskIds :
        /\ tasks[k].putSt = "2xx" /\ tasks[k].chkSt \in Failing
        /\ tasks[k].guid0 = Undef /\ tasks[k].result = "false"

\* C3: every PUT issued for a record carries the same uid.
C3_OneUidPerRecord == \A f \in AllPaths : Cardinality(puts[f]) <= 1

\* C4: when the collection fetch fails (non-2xx or transport failure) the push
\* phase is complete, no record is created, no import notice is shown and no
\* exception leaves the callback.
C4_FetchFailureIsAbsent ==
    \A p \in Passes :
        pass[p].fetchSt \in Failing =>
            /\ pass[p].pc = "done" /\ pass[p].err = "none"
            /\ pass[p].created = {} /\ ~pass[p].notice /\ pass[p].warns = 0
            /\ \A f \in pass[p].files : tasks[<<p, f>>].pc = "done"

\* C5: a failed push (PUT or verify non-2xx, or a transport exception) does not
\* abort the pass: no push outcome rejects a record's task, the pass leaves its
\* push phase exactly when every record's task has completed, and it then fetches.
C5_PushFailureDoesNotAbort ==
    \A p \in Passes :
        /\ \A f \in pass[p].files :
              tasks[<<p, f>>].pc = "failed" => ~tasks[<<p, f>>].readOk
        /\ (pass[p].pc = "threw" /\ pass[p].err = "task") =>
              \E f \in pass[p].files : tasks[<<p, f>>].pc = "failed"
        /\ pass[p].pc = "push" =>
              \E f \in pass[p].files : ~Settled(tasks[<<p, f>>])
        /\ pass[p].fetchSt # "none" =>
              \A f \in pass[p].files : tasks[<<p, f>>].pc = "done"

C5_Witness ==
    \E p \in Passes :
        /\ pass[p].created # {}
        /\ \E f, g \in pass[p].files :
              /\ tasks[<<p, f>>].result = "false"
              /\ tasks[<<p, g>>].result = "true"

\* C6: once the records are listed, no error aborts the pass (neither a failing
\* read of a record nor a failing creation of a record).
C6_NoErrorAbortsPass ==
    \A p \in Passes : pass[p].err \notin {"task", "create"}

\* C7: a sync attempt that finds a guid on the record uses it as the uid of its
\* PUT and leaves it as the event's guid whether it succeeds or fails; a record
\* that has a guid keeps it through every sync attempt, and every PUT for it and
\* every frontmatter edit of it carries that guid.
C7_GuidReused ==
    /\ \A k \in TaskIds :
          (tasks[k].eligible /\ tasks[k].guid0 # Undef) =>
              (tasks[k].uid = tasks[k].guid0 /\ tasks[k].evGuid = tasks[k].guid0)
    /\ \A f \in AllPaths :
          born[f] \notin {-1, Undef} =>
              /\ vault[f].guid = born[f]
              /\ puts[f] \subseteq {born[f]}
              /\ \A o \in Owners : tasks[<<o, f>>].eligible => tasks[<<o, f>>].guid0 = born[f]
              /\ \A w \in pending : w.path = f => w.guid = born[f]

C7_Witness ==
    \E f \in AllPaths, o1, o2 \in Owners :
        /\ born[f] \notin {-1, Undef}
        /\ tasks[<<o1, f>>].result = "true" /\ ~(\E w \in pending : w.path = f)
        /\ tasks[<<o2, f>>].result = "false"

\* C8: in the step in which syncEvent returns true, the event's guid is the uid
\* of the PUT, its url is the URL of the event in the verify answer, and
\* syncEventFile hands exactly these two values to the frontmatter edit.
C8_SuccessValues ==
    [][\A k \in TaskIds :
          (tasks[k].result # "true" /\ tasks'[k].result = "true") =>
              /\ tasks'[k].evGuid = tasks[k].uid
              /\ tasks'[k].evUrl = server[tasks[k].uid].url
              /\ tasks'[k].evUrl = UrlOf(tasks[k].uid)
              /\ pending' = pending \cup
                    {[path |-> k[2], guid |-> tasks[k].uid,
                      url |-> server[tasks[k].uid].url]}]_vars

C8_Witness ==
    \E k \in TaskIds :
        /\ tasks[k].result = "true" /\ tasks[k].guid0 = Undef
        /\ vault[k[2]].guid = tasks[k].uid /\ vault[k[2]].url = UrlOf(tasks[k].uid)

\* A timed remote event whose end is on another local calendar day than its start
MultiDayTimed(e) ==
    /\ e.startType = "DATE-TIME"
    /\ e.end # NoTime
    /\ LocalDay(e.end) # LocalDay(e.start)

\* C9: in the import phase an unknown multi-day timed event is never made a
\* record, gives exactly one warning, and the loop goes on to the later events.
C9_MultiDaySkipped ==
    \A p \in Passes :
        LET ps   == pass[p]
            seen == {i \in 1..Len(ps.cal) : i < ps.idx}
        IN ps.fetchSt = "2xx" =>
             /\ ps.warns = Cardinality({i \in seen :
                               ps.cal[i].uid \notin ps.my_set /\ MultiDayTimed(ps.cal[i])})
             /\ \A i \in 1..Len(ps.cal) :
                   MultiDayTimed(ps.cal[i]) => ps.cal[i].uid \notin ps.created
             /\ \A f \in AllPaths, i \in 1..Len(ps.cal) :
                   (MultiDayTimed(ps.cal[i]) /\ ps.cal[i].uid \notin ps.my_set
                        /\ vault[f].guid = ps.cal[i].uid) => born[f] # ps.cal[i].uid
             /\ ps.pc = "done" => seen = 1..Len(ps.cal)
             /\ ps.pc = "create" => ~MultiDayTimed(ps.cal[ps.idx])

C9_Witness ==
    \E p \in Passes :
        /\ pass[p].pc = "done" /\ pass[p].warns = 1
        /\ MultiDayTimed(pass[p].cal[1])
        /\ pass[p].cal[2].uid \in pass[p].created

\* C10: syncEventFile on a record whose type is not the marker or whose date is
\* missing issues no request, edits nothing and, its content read, raises no error.
C10_IneligibleUntouched ==
    \A f \in Existing :
        (vault[f].type # Marker \/ vault[f].date = Undef) =>
            /\ puts[f] = {}
            /\ vault[f].guid = Undef /\ vault[f].url = Undef
            /\ \A w \in pending : w.path # f
            /\ \A o \in Owners :
                  LET t == tasks[<<o, f>>]
                  IN /\ t.pc \in {"idle", "read", "done", "failed"}
                     /\ t.putSt = "none" /\ t.chkSt = "none" /\ ~t.wrote
                     /\ t.readOk => (t.pc = "done" /\ t.result = "none")

C10_Witness ==
    \E f \in Existing, o1, o2 \in Owners :
        /\ vault[f].date = Undef
        /\ o1 # o2
        /\ tasks[<<o1, f>>].pc = "done" /\ tasks[<<o2, f>>].pc = "done"

\* C11: whatever the size and the order of the fetched collection, the import
\* phase never materializes a remote event whose uid is in the known-identifier
\* set of its pass: the event the loop is about to create is not a known one,
\* no created event is a known one, and every record a pass has created was
\* built from an event outside its set.
C11_KnownNeverImported ==
    \A p \in Slots :
        /\ pass[p].created \cap pass[p].my_set = {}
        /\ pass[p].pc = "create" => pass[p].cal[pass[p].idx].uid \notin pass[p].my_set
        /\ \A i \in 1..Len(pass[p].cal) :
              (pass[p].cal[i].uid \in pass[p].my_set /\ i < pass[p].idx)
                 => pass[p].cal[i].uid \notin pass[p].created

\* A finished pass that fetched a known event next to an unknown one and created
\* a record for the unknown one only
C11_Witness ==
    \E p \in Slots :
        /\ pass[p].pc = "done"
        /\ pass[p].created # {}
        /\ \E i \in 1..Len(pass[p].cal) : pass[p].cal[i].uid \in pass[p].my_set

\* C12: the event built from a local record has start and end of the same type.
\* With a start_time both are DATE-TIME, the start is the record's date and
\* start_time in local time, and the end is the date and end_time in local time
\* if end_time is given, else one hour after the start. Without a start_time
\* both are DATE, the start is midnight (UTC) of the date and the end is one day
\* later, whatever end_time holds.
C12_StartEndFromRecord ==
    \A k \in TaskIds :
        tasks[k].eligible =>
            LET r == vault[k[2]]
                e == tasks[k].ics
            IN /\ e.present
               /\ e.startType = e.endType
               /\ r.start_time # NoTime =>
                     /\ e.startType = "DATE-TIME"
                     /\ LocalDay(e.start) = r.date
                     /\ LocalMin(e.start) = r.start_time
                     /\ IF r.end_time # NoTime
                        THEN LocalDay(e.end) = r.date /\ LocalMin(e.end) = r.end_time
                        ELSE e.end - e.start = HourLen
               /\ r.start_time = NoTime =>
                     /\ e.startType = "DATE"
                     /\ e.start % DayLen = 0
                     /\ e.start \div DayLen = r.date
                     /\ e.end - e.start = DayLen

\* An all-day event pushed from a record that has an end_time and no start_time,
\* away from UTC
C12_Witness ==
    \E k \in TaskIds :
        /\ tasks[k].eligible
        /\ tasks[k].putSt = "2xx"
        /\ vault[k[2]].start_time = NoTime
        /\ vault[k[2]].end_time # NoTime
        /\ tasks[k].ics.endType = "DATE"
        /\ tz # 0

\* C13: a record f pushed to the server and imported from there as a new
\* record g (g was created from the uid of one of f's PUTs) reads back as the
\* same event: the summary of g is the summary of f with hostile characters
\* replaced, and description and location are those of f.
C13_RoundTripPreserved ==
    \A f \in Existing, g \in Existing :
        (f # g /\ born[g] \in puts[f] /\ born[f] # born[g]) =>
            LET a == tryCreateObsidianEvent(Basename(f), vault[f])
                b == tryCreateObsidianEvent(Basename(g), vault[g])
            IN /\ a.ok /\ b.ok
               /\ b.summary = Sanitize(a.summary)
               /\ b.description = a.description
               /\ b.location = a.location

\* C14: the known-identifier set of a pass is exactly the set of non-empty guids
\* that the records under the root had when the pass started, at which point
\* none of its records has issued a PUT yet; afterwards the set never loses a
\* member, and a uid that a push of the pass generated is not in it.
C14_KnownSetIsPrePassGuids ==
    [][\A p \in Slots :
          /\ (pass[p].pc = "idle" /\ pass'[p].pc # "idle") =>
                /\ pass'[p].my_set = {vault[f].guid : f \in {g \in Existing : InRoot(g)}} \ {Undef}
                /\ pass'[p].files = {g \in Existing : InRoot(g)}
                /\ \A f \in pass'[p].files :
                      tasks'[<<p, f>>].pc = "read" /\ tasks'[<<p, f>>].nPut = 0
          /\ pass[p].pc # "idle" => pass[p].my_set \subseteq pass'[p].my_set
          /\ \A f \in AllPaths :
                (tasks'[<<p, f>>].eligible /\ tasks'[<<p, f>>].guid0 = Undef)
                   => tasks'[<<p, f>>].uid \notin pass'[p].my_set]_vars

\* A pass that knows the guid of one record and has stored a newly generated uid
\* in another one
C14_Witness ==
    \E p \in Slots, f \in AllPaths :
        /\ pass[p].my_set # {}
        /\ tasks[<<p, f>>].guid0 = Undef
        /\ tasks[<<p, f>>].result = "true"
        /\ vault[f].guid = tasks[<<p, f>>].uid
        /\ vault[f].guid \notin pass[p].my_set

\* C15: the collection PROPFIND of a pass is issued only when the syncEventFile
\* of every record the pass discovered has completed: from then on no record
\* of the pass is reading, has a PUT or a verify PROPFIND in flight, in
\* whatever order the records completed.
C15_FetchAfterAllPushes ==
    \A p \in Slots :
        pass[p].nFetch > 0 =>
            \A f \in pass[p].files :
                /\ tasks[<<p, f>>].pc \notin {"read", "put", "verify"}
                /\ tasks[<<p, f>>].result # "none" \/ ~tasks[<<p, f>>].eligible

\* The collection PROPFIND in flight after two records, one pushed and one not
C15_Witness ==
    \E p \in Slots, f \in AllPaths, g \in AllPaths :
        /\ pass[p].pc = "fetch"
        /\ {f, g} \subseteq pass[p].files
        /\ tasks[<<p, f>>].result = "true"
        /\ tasks[<<p, g>>].result = "false"

\* C16: nothing is retried. A syncEventFile issues at most one PUT and at most
\* one verify PROPFIND, the verify only after its PUT returned 2xx and for the
\* uid of that PUT; a pass issues at most one collection PROPFIND, and exactly
\* one once all its records have completed, whichever of their requests failed.
C16_NoRetry ==
    /\ \A k \in TaskIds :
          /\ tasks[k].nPut \in {0, 1}
          /\ tasks[k].nChk \in {0, 1}
          /\ tasks[k].nChk <= tasks[k].nPut
          /\ tasks[k].nChk = 1 =>
                /\ tasks[k].putSt = "2xx"
                /\ tasks[k].chkUid = tasks[k].uid
                /\ tasks[k].chkUid = tasks[k].ics.uid
          /\ tasks[k].putSt \in Failing => tasks[k].nChk = 0 /\ tasks[k].pc = "done"
    /\ \A p \in Slots :
          /\ pass[p].nFetch \in {0, 1}
          /\ (pass[p].pc # "idle" /\ \A f \in pass[p].files : tasks[<<p, f>>].pc = "done")
                => pass[p].nFetch = 1
          /\ pass[p].fetchSt # "none" => pass[p].nFetch = 1 /\ pass[p].pc # "fetch"

\* A pass whose collection PROPFIND failed after one record's PUT and another
\* record's verify PROPFIND had failed
C16_Witness ==
    \E p \in Slots, f \in AllPaths, g \in AllPaths :
        /\ {f, g} \subseteq pass[p].files
        /\ tasks[<<p, f>>].putSt \in Failing
        /\ tasks[<<p, g>>].chkSt \in Failing
        /\ pass[p].fetchSt = "non2xx"
        /\ pass[p].nFetch = 1

\* C17: if every storage call and every HTTP request returns, a pass that has
\* started eventually completes: its push phase ends, it has issued the
\* collection PROPFIND, and the callback has run to its end.
C17_PassCompletes ==
    \A p \in Passes :
        (pass[p].pc # "idle") ~> (pass[p].pc = "done" /\ pass[p].nFetch = 1)

\* C18: when a syncEventFile has completed after a successful push, the guid
\* and url it assigned are stored in the record: its frontmatter edit is no
\* longer outstanding, and whoever reads the record's guid from then on finds
\* one.
C18_PersistedOnCompletion ==
    \A k \in TaskIds :
        (tasks[k].pc = "done" /\ tasks[k].result = "true") =>
            /\ [path |-> k[2], guid |-> tasks[k].evGuid, url |-> tasks[k].evUrl] \notin pending
            /\ getUUIDFromEventFile(k[2]) # Undef

\* C19: a pass that starts after another pass has ended creates no record for a
\* remote event that the earlier pass materialized: the record made then is
\* among the records of the later pass, is eligible and carries the uid as its
\* guid, so the uid is in the later pass's known-identifier set.
C19_SecondPassCreatesNothing ==
    \A q \in Slots :
        \A p \in pass[q].prev :
            \A u \in pass[p].created :
                /\ u \in pass[q].my_set
                /\ u \notin pass[q].created
                /\ \E f \in pass[q].files :
                      /\ born[f] = u
                      /\ vault[f].guid = u
                      /\ InRoot(f)
                      /\ tryCreateObsidianEvent(Basename(f), vault[f]).ok

\* A second pass that has run to its end and fetched an event materialized by a
\* pass that had ended before it started
C19_Witness ==
    \E q \in Slots :
        \E p \in pass[q].prev :
            /\ pass[q].pc = "done"
            /\ pass[q].notice
            /\ \E i \in 1..Len(pass[q].cal) : pass[q].cal[i].uid \in pass[p].created

\* C20: two passes that overlap never materialize the same remote event twice:
\* no uid is created by both, and at most one record exists that was made from
\* any one created uid.
C20_NoDoubleMaterialization ==
    /\ \A p \in Slots, q \in Slots :
          p # q => pass[p].created \cap pass[q].created = {}
    /\ \A p \in Slots :
          \A u \in pass[p].created : Cardinality({f \in Existing : born[f] = u}) = 1

\* Two overlapping passes that both took an event for unmatched: one created
\* its record, the other's vault.create found the path taken
C20_Witness ==
    \E p \in Slots, q \in Slots :
        /\ p # q
        /\ p \notin pass[q].prev
        /\ q \notin pass[p].prev
        /\ pass[q].err = "create"
        /\ pass[q].cal[pass[q].idx].uid \in pass[p].created
        /\ pass[q].cal[pass[q].idx].uid \notin pass[q].my_set

====
